---- MODULE Spec2Model ----
(***************************************************************************)
(* Model of the dense matrix type of src/lib.rs: struct Matrix<T> with its *)
(* constructors (from, new, new_random), accessors (get, get_row,          *)
(* get_column, set) and the two multiplication operators.                  *)
(*                                                                         *)
(* A Matrix is the record [rows, cols, data]; data is the Vec<T>, so the   *)
(* element the code addresses as data[i] is data[i + 1] here.  A call      *)
(* returns Ok(v) or Panic(kind): the code has no error type, every failure *)
(* is a Rust panic (an index out of bounds, or the assert_eq! of mul).     *)
(* A session builds one matrix with a constructor and then calls up to     *)
(* `budget` operations on it; a panic unwinds and ends the session.        *)
(***************************************************************************)
EXTENDS Integers, Sequences, FiniteSets

VARIABLES matrix, pre, hist, ret, budget

vars == <<matrix, pre, hist, ret, budget>>

(* ---- bounds of the model ---- *)
MaxDim == 2
MaxVal == 1
MaxOps == 2
MaxDraws == 4

Dims == 0..MaxDim
Index == 0..MaxDim
Vals == 0..MaxVal
Scalars == 0..(MaxVal + 1)
Steps == {1, -1}

(* ---- results of a call ---- *)
Ok(v) == [outcome |-> "ok", value |-> v]

Panic(kind) == [outcome |-> kind]

IsOk(r) == r.outcome = "ok"

(* ---- struct Matrix<T> ---- *)
Matrix(rows, cols, data) == [rows |-> rows, cols |-> cols, data |-> data]

RECURSIVE flatten(_)
flatten(d) == IF d = <<>> THEN <<>> ELSE Head(d) \o flatten(Tail(d))

from(d) ==
    IF Len(d) = 0
    THEN Panic("index_out_of_bounds")
    ELSE Ok(Matrix(Len(d), Len(d[1]), flatten(d)))

new(rows, cols, value) ==
    Ok(Matrix(rows, cols, [n \in 1..(rows * cols) |-> value]))

get(self, row, col) ==
    IF row * self.cols + col < Len(self.data)
    THEN Ok(self.data[row * self.cols + col + 1])
    ELSE Panic("index_out_of_bounds")

(* get_row with the row stride taken from rows instead of cols *)
get_row_stride_rows(self, row) ==
    IF row * self.rows + self.cols <= Len(self.data)
    THEN Ok(SubSeq(self.data, row * self.rows + 1, row * self.rows + self.cols))
    ELSE Panic("index_out_of_bounds")

get_row(self, row) ==
    IF (row + 1) * self.cols <= Len(self.data)
    THEN Ok(SubSeq(self.data, row * self.cols + 1, (row + 1) * self.cols))
    ELSE Panic("index_out_of_bounds")

get_column(self, column) ==
    IF \E i \in 0..(self.rows - 1) : ~IsOk(get(self, i, column))
    THEN Panic("index_out_of_bounds")
    ELSE Ok([n \in 1..self.rows |-> get(self, n - 1, column).value])

set(self, row, col, value) ==
    IF row * self.cols + col < Len(self.data)
    THEN Ok([self EXCEPT !.data[row * self.cols + col + 1] = value])
    ELSE Panic("index_out_of_bounds")

new_random(rows, cols, draws) ==
    Ok(Matrix(rows, cols, draws \o <<1>>))

(* the iterations <<i, j, k>> of the triple loop of mul *)
mul_iterations(self, rhs) ==
    {<<i, j, k>> : i \in 0..(self.rows - 1), j \in 0..(rhs.cols - 1),
                   k \in 0..(self.cols - 1)}

(* the inner loop over k in 0..n, from total = T::default() *)
RECURSIVE mul_total(_, _, _, _, _)
mul_total(self, rhs, i, j, n) ==
    IF n = 0
    THEN 0
    ELSE mul_total(self, rhs, i, j, n - 1)
         + get(self, i, n - 1).value * get(rhs, n - 1, j).value

(* the inner loop reading rhs at (j, k) instead of (k, j) *)
RECURSIVE mul_total_swapped(_, _, _, _, _)
mul_total_swapped(self, rhs, i, j, n) ==
    IF n = 0
    THEN 0
    ELSE mul_total_swapped(self, rhs, i, j, n - 1)
         + get(self, i, n - 1).value * get(rhs, j, n - 1).value

mul_swapped(self, rhs) ==
    IF self.rows # rhs.cols
    THEN Panic("assertion_failed")
    ELSE IF \E it \in mul_iterations(self, rhs) :
               \/ ~IsOk(get(self, it[1], it[3]))
               \/ ~IsOk(get(rhs, it[2], it[3]))
    THEN Panic("index_out_of_bounds")
    ELSE Ok(Matrix(self.rows, rhs.cols,
                   [n \in 1..(self.rows * rhs.cols) |->
                       mul_total_swapped(self, rhs, (n - 1) \div rhs.cols,
                                         (n - 1) % rhs.cols, self.cols)]))

mul(self, rhs) ==
    IF self.rows # rhs.cols
    THEN Panic("assertion_failed")
    ELSE IF \E it \in mul_iterations(self, rhs) :
               \/ ~IsOk(get(self, it[1], it[3]))
               \/ ~IsOk(get(rhs, it[3], it[2]))
    THEN Panic("index_out_of_bounds")
    ELSE Ok(Matrix(self.rows, rhs.cols,
                   [n \in 1..(self.rows * rhs.cols) |->
                       mul_total(self, rhs, (n - 1) \div rhs.cols,
                                 (n - 1) % rhs.cols, self.cols)]))

(* the scalar product adding the scalar instead of multiplying by it *)
mul_scalar_add(self, rhs) ==
    Ok(Matrix(self.rows, self.cols,
              [n \in 1..Len(self.data) |-> self.data[n] + rhs]))

mul_scalar(self, rhs) ==
    Ok(Matrix(self.rows, self.cols,
              [n \in 1..Len(self.data) |-> self.data[n] * rhs]))

(* ---- inputs ---- *)
RECURSIVE SumLens(_, _)
SumLens(lens, n) == IF n = 0 THEN 0 ELSE SumLens(lens, n - 1) + lens[n]

(* rows of the given lengths whose cells count up or down from start, *)
(* as the fixtures of the tests do ([[1,2,3],[4,5,6],[7,8,9]])         *)
Ramp(lens, start, step) ==
    [r \in 1..Len(lens) |->
        [c \in 1..lens[r] |-> start + step * (SumLens(lens, r - 1) + c - 1)]]

RowLens == UNION {[1..n -> Dims] : n \in Dims}

NestedInputs == {Ramp(lens, s, st) : lens \in RowLens, s \in Vals, st \in Steps}

IsRectangular(d) == Len(d) > 0 /\ \A r \in 1..Len(d) : Len(d[r]) = Len(d[1])

RectInputs == {d \in NestedInputs : IsRectangular(d) /\ Len(d[1]) > 0}

Ranges == {<<lo, hi>> \in (0..(MaxVal + 1)) \X (0..(MaxVal + 1)) : lo < hi}

RhsInputs ==
    {from(d).value : d \in RectInputs}
    \cup {new_random(r, c, [n \in 1..(r * c) |-> 0]).value :
             r \in 1..MaxDim, c \in 1..MaxDim}

(* ---- the session ---- *)
NoMatrix == Matrix(0, 0, <<>>)

Call(op, args) == [op |-> op, args |-> args]

Init ==
    /\ matrix = NoMatrix
    /\ pre = NoMatrix
    /\ hist = <<>>
    /\ ret = Ok(<<>>)
    /\ budget = MaxOps

InitCall ==
    /\ matrix = NoMatrix
    /\ pre = NoMatrix
    /\ hist = <<>>
    /\ ret = Ok(<<>>)
    /\ budget = 1

Live == hist # <<>> /\ IsOk(ret) /\ Len(hist) <= budget

(* the matrix a call leaves behind: its value, or the old one after a panic *)
After(r) == IF IsOk(r) THEN r.value ELSE matrix

From ==
    /\ hist = <<>>
    /\ \E d \in NestedInputs :
        /\ hist' = <<Call("from", <<d>>)>>
        /\ ret' = from(d)
        /\ pre' = matrix
        /\ matrix' = After(from(d))
        /\ UNCHANGED budget

New ==
    /\ hist = <<>>
    /\ \E rows \in Dims, cols \in Dims, value \in Vals :
        /\ hist' = <<Call("new", <<rows, cols, value>>)>>
        /\ ret' = new(rows, cols, value)
        /\ pre' = matrix
        /\ matrix' = After(new(rows, cols, value))
        /\ UNCHANGED budget

NewRandom ==
    /\ hist = <<>>
    /\ \E rows \in Dims, cols \in Dims, rg \in Ranges :
        /\ rows * cols <= MaxDraws
        /\ \E draws \in [1..(rows * cols) -> rg[1]..(rg[2] - 1)] :
            /\ hist' = <<Call("new_random", <<rows, cols, rg[1], rg[2]>>)>>
            /\ ret' = new_random(rows, cols, draws)
            /\ pre' = matrix
            /\ matrix' = After(new_random(rows, cols, draws))
            /\ UNCHANGED budget

Get ==
    /\ Live
    /\ \E row \in Index, col \in Index :
        /\ hist' = Append(hist, Call("get", <<row, col>>))
        /\ ret' = get(matrix, row, col)
        /\ pre' = matrix
        /\ UNCHANGED <<matrix, budget>>

GetRow ==
    /\ Live
    /\ \E row \in Index :
        /\ hist' = Append(hist, Call("get_row", <<row>>))
        /\ ret' = get_row(matrix, row)
        /\ pre' = matrix
        /\ UNCHANGED <<matrix, budget>>

GetColumn ==
    /\ Live
    /\ \E column \in Index :
        /\ hist' = Append(hist, Call("get_column", <<column>>))
        /\ ret' = get_column(matrix, column)
        /\ pre' = matrix
        /\ UNCHANGED <<matrix, budget>>

Set ==
    /\ Live
    /\ \E row \in Index, col \in Index, value \in Vals :
        /\ hist' = Append(hist, Call("set", <<row, col, value>>))
        /\ ret' = (IF IsOk(set(matrix, row, col, value))
                   THEN Ok(<<>>) ELSE set(matrix, row, col, value))
        /\ pre' = matrix
        /\ matrix' = After(set(matrix, row, col, value))
        /\ UNCHANGED budget

Mul ==
    /\ Live
    /\ \E rhs \in RhsInputs :
        /\ hist' = Append(hist, Call("mul", <<rhs>>))
        /\ ret' = mul(matrix, rhs)
        /\ pre' = matrix
        /\ matrix' = After(mul(matrix, rhs))
        /\ UNCHANGED budget

MulScalar ==
    /\ Live
    /\ \E rhs \in Scalars :
        /\ hist' = Append(hist, Call("mul_scalar", <<rhs>>))
        /\ ret' = mul_scalar(matrix, rhs)
        /\ pre' = matrix
        /\ matrix' = After(mul_scalar(matrix, rhs))
        /\ UNCHANGED budget

Next ==
    \/ From
    \/ New
    \/ NewRandom
    \/ Get
    \/ GetRow
    \/ GetColumn
    \/ Set
    \/ Mul
    \/ MulScalar

Spec == Init /\ [][Next]_vars

SpecCall == InitCall /\ [][Next]_vars

(* ---- notions the properties are stated in ---- *)

(* the last call of the session, and its first (the constructor) *)
Last == hist[Len(hist)]

Built == hist[1]

(* the element at logical position (r, c) of a row-major matrix *)
Entry(m, r, c) == m.data[r * m.cols + c + 1]

WellFormed(m) == Len(m.data) = m.rows * m.cols

(* the cells of a rectangular d in row-major order *)
RowMajor(d) ==
    [n \in 1..(Len(d) * Len(d[1])) |->
        d[((n - 1) \div Len(d[1])) + 1][((n - 1) % Len(d[1])) + 1]]

RECURSIVE SumOver(_, _, _, _, _)
SumOver(K, a, b, i, j) ==
    IF K = {}
    THEN 0
    ELSE LET k == CHOOSE x \in K : TRUE
         IN  Entry(a, i, k) * Entry(b, k, j) + SumOver(K \ {k}, a, b, i, j)

(* sum over k in [0, a.cols) of a[i,k] * b[k,j] *)
DotSum(a, b, i, j) == SumOver(0..(a.cols - 1), a, b, i, j)

(* the session was built within the documented preconditions *)
BuiltAsDocumented ==
    /\ hist # <<>>
    /\ Built.op = "from" => IsRectangular(Built.args[1])

(* C1: every matrix built by a constructor (from on rectangular non-empty  *)
(* input, new, new_random) and changed by any later set, matrix product or *)
(* scalar product has Len(data) = rows * cols.                             *)
C1_ShapeInvariant == BuiltAsDocumented => WellFormed(matrix)

(* C2: when self.cols = rhs.rows and self * rhs returns a value, the value *)
(* has shape self.rows x rhs.cols and its element at (i, j) is the sum     *)
(* over k of self[i,k] * rhs[k,j], in row-major order.                     *)
C2_MulIsProduct ==
    (hist # <<>> /\ Last.op = "mul" /\ IsOk(ret)
        /\ pre.cols = Last.args[1].rows)
    => LET rhs == Last.args[1]
           p == ret.value
       IN  /\ p.rows = pre.rows
           /\ p.cols = rhs.cols
           /\ Len(p.data) = pre.rows * rhs.cols
           /\ \A i \in 0..(pre.rows - 1), j \in 0..(rhs.cols - 1) :
                  Entry(p, i, j) = DotSum(pre, rhs, i, j)

C2_Witness ==
    /\ hist # <<>>
    /\ Last.op = "mul"
    /\ IsOk(ret)
    /\ pre.rows = 2
    /\ pre.cols = 2
    /\ Last.args[1].rows = 2
    /\ ret.value.data[2] # ret.value.data[3]

(* C3: self * rhs fails with the dimension-mismatch error exactly when     *)
(* self.cols # rhs.rows: (m x n) * (n x p) yields a result, every other    *)
(* pair of shapes is rejected.                                             *)
C3_MulRejectsExactly ==
    (hist # <<>> /\ Last.op = "mul"
        /\ WellFormed(pre) /\ WellFormed(Last.args[1])
        /\ pre.rows >= 1 /\ pre.cols >= 1)
    => /\ pre.cols = Last.args[1].rows => IsOk(ret)
       /\ pre.cols # Last.args[1].rows => ret.outcome = "assertion_failed"

(* C4: get(row, col) and set(row, col, v) with row >= rows or col >= cols  *)
(* always fail with an index error and leave the matrix unchanged.         *)
C4_BoundsChecked ==
    (hist # <<>> /\ Last.op \in {"get", "set"} /\ WellFormed(pre)
        /\ (Last.args[1] >= pre.rows \/ Last.args[2] >= pre.cols))
    => /\ ret.outcome = "index_out_of_bounds"
       /\ matrix = pre

(* C5: every element of the backing sequence of                            *)
(* new_random(rows, cols, min, max) satisfies min <= element < max, and    *)
(* the declared shape is rows x cols.                                      *)
C5_RandomBounds ==
    (Len(hist) = 1 /\ Built.op = "new_random")
    => /\ IsOk(ret)
       /\ matrix.rows = Built.args[1]
       /\ matrix.cols = Built.args[2]
       /\ \A n \in 1..Len(matrix.data) :
              Built.args[3] <= matrix.data[n] /\ matrix.data[n] < Built.args[4]

(* C6: from on a non-empty row collection in which some row's length       *)
(* differs from the first row's fails and produces no matrix.              *)
C6_RaggedRejected ==
    (Len(hist) = 1 /\ Built.op = "from" /\ Len(Built.args[1]) > 0
        /\ ~IsRectangular(Built.args[1]))
    => ~IsOk(ret)

(* C7: for a non-empty rectangular d, from(d) has rows = Len(d),           *)
(* cols = Len(d[1]), data = the row-major flattening of d, and             *)
(* get_row(r) = d[r] for every r in [0, rows).                             *)
C7_RoundTrip ==
    (hist # <<>> /\ Built.op = "from" /\ IsRectangular(Built.args[1]))
    => LET d == Built.args[1]
       IN  /\ Len(hist) = 1 =>
                 /\ IsOk(ret)
                 /\ matrix.rows = Len(d)
                 /\ matrix.cols = Len(d[1])
                 /\ matrix.data = RowMajor(d)
           /\ (Len(hist) = 2 /\ Last.op = "get_row" /\ Last.args[1] < Len(d)) =>
                 ret = Ok(d[Last.args[1] + 1])

C7_Witness ==
    /\ Len(hist) = 2
    /\ Built.op = "from"
    /\ IsRectangular(Built.args[1])
    /\ Len(Built.args[1]) = 2
    /\ Last.op = "get_row"
    /\ Last.args[1] = 1
    /\ IsOk(ret)
    /\ Len(ret.value) = 2

(* C8: M * s has the rows and cols of M, and its element at every          *)
(* position (r, c) is M[r,c] * s.                                          *)
C8_ScalarMul ==
    (hist # <<>> /\ Last.op = "mul_scalar")
    => /\ IsOk(ret)
       /\ ret.value.rows = pre.rows
       /\ ret.value.cols = pre.cols
       /\ Len(ret.value.data) = Len(pre.data)
       /\ \A r \in 0..(pre.rows - 1), c \in 0..(pre.cols - 1) :
              r * pre.cols + c < Len(pre.data) =>
                  Entry(ret.value, r, c) = Entry(pre, r, c) * Last.args[1]

C8_Witness ==
    /\ hist # <<>>
    /\ Last.op = "mul_scalar"
    /\ Last.args[1] = 2
    /\ IsOk(ret)
    /\ pre.rows = 2
    /\ pre.cols = 2
    /\ WellFormed(pre)
    /\ pre.data[2] # 0
    /\ pre.data[3] # pre.data[2]

(* C9: for A (m x n), B (n x p), C (p x q) with m, n, p, q >= 1, both      *)
(* (A*B)*C and A*(B*C) are computed successfully and are equal, with       *)
(* shape m x q.                                                            *)
C9_Associative ==
    (Len(hist) >= 2 /\ Built.op = "from" /\ Built.args[1] \in RectInputs
        /\ hist[2].op = "mul" /\ WellFormed(hist[2].args[1])
        /\ from(Built.args[1]).value.cols = hist[2].args[1].rows)
    => LET A == from(Built.args[1]).value
           B == hist[2].args[1]
       IN  /\ Len(hist) = 2 => IsOk(ret)
           /\ (Len(hist) = 3 /\ hist[3].op = "mul"
                  /\ WellFormed(hist[3].args[1])
                  /\ B.cols = hist[3].args[1].rows) =>
                 LET C == hist[3].args[1]
                 IN  /\ IsOk(ret)
                     /\ IsOk(mul(B, C))
                     /\ IsOk(mul(A, mul(B, C).value))
                     /\ ret.value = mul(A, mul(B, C).value).value
                     /\ ret.value.rows = A.rows
                     /\ ret.value.cols = C.cols

(* C10: whenever the shape check of the matrix product passes for two      *)
(* operands with Len(data) = rows * cols, the triple loop completes        *)
(* without an out-of-range access, and every rhs element it reads at       *)
(* (k, j) has k < rhs.rows and j < rhs.cols.                               *)
C10_LoopInRange ==
    (hist # <<>> /\ Last.op = "mul"
        /\ WellFormed(pre) /\ WellFormed(Last.args[1])
        /\ pre.rows = Last.args[1].cols)
    => /\ IsOk(ret)
       /\ \A it \in mul_iterations(pre, Last.args[1]) :
              it[3] < Last.args[1].rows /\ it[2] < Last.args[1].cols

====
